---- MODULE Spec2Model ----
(***************************************************************************)
(* Model of src/storage.ts of hd-utility: the JSON-safe wrappers over      *)
(* sessionStorage / localStorage (storage), the Proxy view over one pool   *)
(* document (Cache) and the promise wrappers over IndexedDB (DB).          *)
(***************************************************************************)
EXTENDS Integers, Sequences, FiniteSets, TLC

(***************************************************************************)
(* JavaScript values.  Every value is a record tagged by t, so that any    *)
(* two values can be compared.  Objects are flat: an ordered list of       *)
(* members whose values are scalars.                                       *)
(***************************************************************************)
Undefined == [t |-> "undefined"]
Null == [t |-> "null"]
NaN == [t |-> "NaN"]
Num(s) == [t |-> "number", s |-> s]
Str(s) == [t |-> "string", s |-> s]
True == [t |-> "boolean", s |-> "true"]
Member(k, v) == [k |-> k, v |-> v]
Obj(members) == [t |-> "object", o |-> members]

\* An object whose toJSON() method writes view[prop] = value and returns json.
WritingValue(prop, value, json) ==
    [t |-> "tojson", prop |-> prop, value |-> value, json |-> json]

\* A completion of a call: a returned value or a thrown exception.
Return(v) == [kind |-> "return", v |-> v]
Throw(e) == [kind |-> "throw", v |-> e]

\* Exceptions are objects without own enumerable properties.
DOMException(name) == [t |-> "object", o |-> << >>, class |-> "DOMException", name |-> name]
TypeError == [t |-> "object", o |-> << >>, class |-> "TypeError", name |-> "TypeError"]
Error(message) == [t |-> "object", o |-> << >>, class |-> "Error", message |-> message]

(***************************************************************************)
(* Text.  A DOMString is modelled by its sequence of lexical tokens.       *)
(***************************************************************************)
Tok(k, s) == [k |-> k, s |-> s]
LBrace == Tok("punct", "{")
RBrace == Tok("punct", "}")
Colon == Tok("punct", ":")
Comma == Tok("punct", ",")
NullTok == Tok("literal", "null")

\* JSON.stringify of a member value or of a top-level scalar.
SerializeScalar(v) ==
    CASE v.t = "null" -> <<NullTok>>
      [] v.t = "NaN" -> <<NullTok>>
      [] v.t = "number" -> <<Tok("number", v.s)>>
      [] v.t = "string" -> <<Tok("string", v.s)>>
      [] v.t = "tojson" -> <<Tok("number", v.json.s)>>

\* JSON.stringify of the members of an object, in property order; a member
\* whose value is undefined is left out.
RECURSIVE SerializeMembers(_, _)
SerializeMembers(ms, first) ==
    IF ms = << >> THEN << >>
    ELSE LET m == Head(ms) IN
         IF m.v.t = "undefined" THEN SerializeMembers(Tail(ms), first)
         ELSE (IF first THEN << >> ELSE <<Comma>>)
              \o <<Tok("string", m.k), Colon>> \o SerializeScalar(m.v)
              \o SerializeMembers(Tail(ms), FALSE)

\* JSON.stringify(value): undefined for undefined, a text otherwise.
JSONStringify(v) ==
    IF v.t = "undefined" THEN Undefined
    ELSE IF v.t = "object"
         THEN [t |-> "text", x |-> <<LBrace>> \o SerializeMembers(v.o, TRUE) \o <<RBrace>>]
         ELSE [t |-> "text", x |-> SerializeScalar(v)]

\* The conversion of an argument to a DOMString (setItem's value, a template
\* literal's substitution).
ToDOMString(r) ==
    IF r.t = "undefined" THEN <<Tok("chars", "undefined")>> ELSE r.x

\* obj[k] = v in property order: an existing key keeps its place.
RECURSIVE SetMember(_, _, _)
SetMember(ms, k, v) ==
    IF ms = << >> THEN <<Member(k, v)>>
    ELSE IF Head(ms).k = k THEN <<Member(k, v)>> \o Tail(ms)
    ELSE <<Head(ms)>> \o SetMember(Tail(ms), k, v)

IsScalarTok(tok) == tok.k \in {"literal", "number", "string"}

ScalarOf(tok) ==
    CASE tok.k = "literal" -> Null
      [] tok.k = "number" -> Num(tok.s)
      [] tok.k = "string" -> Str(tok.s)

SyntaxError == [ok |-> FALSE]

\* The members of an object text after "{" or ",": key ":" value, then "," or
\* the closing "}" that ends the text.
RECURSIVE ParseMembers(_, _)
ParseMembers(toks, acc) ==
    IF Len(toks) < 4 THEN SyntaxError
    ELSE IF ~(toks[1].k = "string" /\ toks[2] = Colon /\ IsScalarTok(toks[3]))
    THEN SyntaxError
    ELSE LET acc2 == SetMember(acc, toks[1].s, ScalarOf(toks[3])) IN
         IF toks[4] = RBrace
         THEN (IF Len(toks) = 4 THEN [ok |-> TRUE, v |-> Obj(acc2)] ELSE SyntaxError)
         ELSE IF toks[4] = Comma
         THEN ParseMembers(SubSeq(toks, 5, Len(toks)), acc2)
         ELSE SyntaxError

\* JSON.parse(text): the value, or a SyntaxError.
JSONParse(text) ==
    IF Len(text) = 0 THEN SyntaxError
    ELSE IF Len(text) = 1
    THEN (IF IsScalarTok(text[1]) THEN [ok |-> TRUE, v |-> ScalarOf(text[1])]
          ELSE SyntaxError)
    ELSE IF text[1] # LBrace THEN SyntaxError
    ELSE IF text = <<LBrace, RBrace>> THEN [ok |-> TRUE, v |-> Obj(<< >>)]
    ELSE ParseMembers(Tail(text), << >>)

(***************************************************************************)
(* The host's Storage areas.  An item is absent (getItem returns null) or  *)
(* holds a text.                                                           *)
(***************************************************************************)
Absent == [present |-> FALSE]
Item(text) == [present |-> TRUE, text |-> text]
NoFault == [t |-> "nofault"]

getItem(area, key) == area[key]

\* setItem either stores the text or throws the host's fault and stores nothing.
setItem(area, key, text, fault) ==
    IF fault # NoFault
    THEN [area |-> area, out |-> Throw(fault)]
    ELSE [area |-> [area EXCEPT ![key] = Item(text)], out |-> Return(Undefined)]

\* Variant: parse has no value for a text that is not JSON.
parse_undefined(data) ==
    LET r == JSONParse(IF data.present THEN data.text ELSE <<NullTok>>)
    IN IF r.ok THEN r.v ELSE Undefined

\* parse(data): JSON.parse(data as string); null is converted to the text null.
parse(data) ==
    LET r == JSONParse(IF data.present THEN data.text ELSE <<NullTok>>)
    IN IF r.ok THEN r.v ELSE Null

(***************************************************************************)
(* JavaScript operations the code applies to decoded values.               *)
(***************************************************************************)
\* !value is false: the truthiness of a value.
Truthy(v) ==
    CASE v.t = "object" -> TRUE
      [] v.t = "number" -> v.s # "0"
      [] v.t = "string" -> v.s # ""
      [] OTHER -> FALSE

RECURSIVE LookupMember(_, _)
LookupMember(ms, prop) ==
    IF ms = << >> THEN Undefined
    ELSE IF Head(ms).k = prop THEN Head(ms).v
    ELSE LookupMember(Tail(ms), prop)

\* value?.[prop]: undefined on null and undefined, the own property of an
\* object, the index and length properties of a (one character) string.
GetProp(v, prop) ==
    CASE v.t = "object" -> LookupMember(v.o, prop)
      [] v.t = "string" ->
            (IF prop = "0" /\ v.s # "" THEN Str(v.s)
             ELSE IF prop = "length" THEN Num(IF v.s = "" THEN "0" ELSE "1")
             ELSE Undefined)
      [] OTHER -> Undefined

\* { ...value }: the own enumerable properties of an object, the characters
\* of a (one character) string, nothing for any other value.
Spread(v) ==
    CASE v.t = "object" -> v.o
      [] v.t = "string" -> (IF v.s = "" THEN << >> ELSE <<Member("0", Str(v.s))>>)
      [] OTHER -> << >>

\* Reflect.ownKeys(value): a TypeError unless value is an object.
ReflectOwnKeys(v) ==
    IF v.t = "object"
    THEN Return([i \in 1..Len(v.o) |-> v.o[i].k])
    ELSE Throw(TypeError)

(***************************************************************************)
(* storage: the wrappers over the two Storage areas.  w is the pair of     *)
(* areas, fault the host's answer to the write (NoFault, or the exception  *)
(* setItem throws).                                                        *)
(***************************************************************************)
storage_session_get(w, key) == parse(getItem(w.session, key))

\* Variant: the new value is merged into the object stored before.
storage_session_set_merge(w, key, value, fault) ==
    LET old == parse(getItem(w.session, key))
        new == IF old.t = "object" /\ value.t = "object"
               THEN Obj(old.o \o SelectSeq(value.o,
                          LAMBDA m : LookupMember(old.o, m.k) = Undefined))
               ELSE value
        r == setItem(w.session, key, ToDOMString(JSONStringify(new)), fault)
    IN [w |-> [w EXCEPT !.session = r.area], out |-> r.out]

\* Variant: set catches what setItem throws.
storage_session_set_swallow(w, key, value, fault) ==
    LET r == setItem(w.session, key, ToDOMString(JSONStringify(value)), fault)
    IN [w |-> [w EXCEPT !.session = r.area], out |-> Return(Undefined)]

storage_session_set(w, key, value, fault) ==
    LET r == setItem(w.session, key, ToDOMString(JSONStringify(value)), fault)
    IN [w |-> [w EXCEPT !.session = r.area], out |-> r.out]

storage_local_get(w, key) == parse(getItem(w.local, key))

\* Variant: local.set writes the session area.
storage_local_set_session(w, key, value, fault) ==
    LET r == setItem(w.session, key, ToDOMString(JSONStringify(value)), fault)
    IN [w |-> [w EXCEPT !.session = r.area], out |-> r.out]

storage_local_set(w, key, value, fault) ==
    LET r == setItem(w.local, key, ToDOMString(JSONStringify(value)), fault)
    IN [w |-> [w EXCEPT !.local = r.area], out |-> r.out]

\* storage[type].get(key) and storage[type].set(key, value)
storage_get(w, type, key) ==
    IF type = "session" THEN storage_session_get(w, key) ELSE storage_local_get(w, key)

storage_set(w, type, key, value, fault) ==
    IF type = "session" THEN storage_session_set(w, key, value, fault)
    ELSE storage_local_set(w, key, value, fault)

(***************************************************************************)
(* Cache(type, pool): the Proxy over the pool document.                    *)
(***************************************************************************)
\* The Proxy: its closure (type, pool) and its target, the object { }.
Proxy(type, pool) == [type |-> type, pool |-> pool, target |-> Obj(<< >>)]

\* Variant: the constructor stores { } whatever the pool holds.
Cache_reset(w, type, pool, fault) ==
    LET r == storage_set(w, type, pool, Obj(<< >>), fault) IN
    IF r.out.kind = "throw" THEN r
    ELSE [w |-> r.w, out |-> Return(Proxy(type, pool))]

\* The constructor: a falsy pool value is replaced by { } before the Proxy is made.
Cache(w, type, pool, fault) ==
    IF ~Truthy(storage_get(w, type, pool))
    THEN LET r == storage_set(w, type, pool, Obj(<< >>), fault) IN
         IF r.out.kind = "throw" THEN r
         ELSE [w |-> r.w, out |-> Return(Proxy(type, pool))]
    ELSE [w |-> w, out |-> Return(Proxy(type, pool))]

\* Variant: the get trap reads the Proxy's target instead of the stored pool.
Cache_get_target(w, view, prop) == Return(GetProp(view.target, prop))

\* The get trap.
Cache_get(w, view, prop) ==
    LET currentPool == storage_get(w, view.type, view.pool)
    IN Return(GetProp(currentPool, prop))

\* The message of the Error the set trap throws.
Cache_set_message(error) ==
    <<Tok("chars", "Cache.set error: ")>> \o ToDOMString(JSONStringify(error))

\* Variant: the set trap stores the written field alone, without the spread of
\* the current pool.
Cache_set_nospread(w, view, prop, value, fault) ==
    LET r == storage_set(w, view.type, view.pool, Obj(<<Member(prop, value)>>), fault)
    IN IF r.out.kind = "throw"
       THEN [w |-> r.w, out |-> Throw(Error(Cache_set_message(r.out.v)))]
       ELSE [w |-> r.w, out |-> Return(True)]

\* Variant: the set trap has no try / catch, what storage.set throws passes.
Cache_set_rethrow(w, view, prop, value, fault) ==
    LET r == storage_set(w, view.type, view.pool,
                         Obj(SetMember(Spread(storage_get(w, view.type, view.pool)),
                                       prop, value)),
                         fault)
    IN IF r.out.kind = "throw" THEN r ELSE [w |-> r.w, out |-> Return(True)]

\* The set trap, first part: the argument of storage.set, the spread of the
\* pool as read now with [prop] set to value.
Cache_set_document(w, view, prop, value) ==
    Obj(SetMember(Spread(storage_get(w, view.type, view.pool)), prop, value))

\* Variant: the store sets the members of the document in the pool as it is
\* stored now.
RECURSIVE SetMembers(_, _)
SetMembers(ms, new) ==
    IF new = << >> THEN ms
    ELSE SetMembers(SetMember(ms, Head(new).k, Head(new).v), Tail(new))

Cache_set_store_merge(w, view, document, fault) ==
    LET current == Spread(storage_get(w, view.type, view.pool))
        merged == Obj(SetMembers(current, document.o))
        r == storage_set(w, view.type, view.pool, merged, fault)
    IN IF r.out.kind = "throw"
       THEN [w |-> r.w, out |-> Throw(Error(Cache_set_message(r.out.v)))]
       ELSE [w |-> r.w, out |-> Return(True)]

\* The set trap, second part: storage.set of the document; what it throws is
\* caught and a new Error is thrown.
Cache_set_store(w, view, document, fault) ==
    LET r == storage_set(w, view.type, view.pool, document, fault)
    IN IF r.out.kind = "throw"
       THEN [w |-> r.w, out |-> Throw(Error(Cache_set_message(r.out.v)))]
       ELSE [w |-> r.w, out |-> Return(True)]

\* The set trap.
Cache_set(w, view, prop, value, fault) ==
    Cache_set_store(w, view, Cache_set_document(w, view, prop, value), fault)

\* The ownKeys trap.
Cache_ownKeys(w, view) ==
    ReflectOwnKeys(storage_get(w, view.type, view.pool))

\* The getOwnPropertyDescriptor trap.
Cache_getOwnPropertyDescriptor(w, view, prop) ==
    LET currentPool == storage_get(w, view.type, view.pool)
    IN [value |-> GetProp(currentPool, prop), enumerable |-> TRUE, configurable |-> TRUE]

\* Object.keys(view): the keys the ownKeys trap lists whose descriptor, from
\* the getOwnPropertyDescriptor trap, is enumerable.
ObjectKeys(w, view) ==
    LET r == Cache_ownKeys(w, view) IN
    IF r.kind = "throw" THEN r
    ELSE Return(SelectSeq(r.v,
            LAMBDA k : Cache_getOwnPropertyDescriptor(w, view, k).enumerable))

(***************************************************************************)
(* DB: the promise wrappers over IndexedDB.                                *)
(***************************************************************************)
\* A promise, and the resolve and reject functions of its executor: the first
\* call settles the promise, a later call changes nothing.
Pending == [state |-> "pending", value |-> Undefined]

resolve(p, v) == IF p.state = "pending" THEN [state |-> "fulfilled", value |-> v] ELSE p

\* Variant: reject settles the promise again.
reject_again(p, e) == [state |-> "rejected", value |-> e]

reject(p, e) == IF p.state = "pending" THEN [state |-> "rejected", value |-> e] ELSE p

\* The object every onerror and onabort handler rejects with.
Payload(message, error) ==
    Obj(<<Member("type", Str("storage")), Member("message", Str(message)),
          Member("data", error)>>)

\* indexedDB.open('nucleus_scouting', 1)
DBVersion == 1

StoreNames == {"files", "notes"}
DBKeys == {"a", "b"}
NoStore == [keyPath |-> "", exists |-> FALSE]
ObjectStore(keyPath, data) == [keyPath |-> keyPath, exists |-> TRUE, data |-> data]
EmptyData == [k \in DBKeys |-> Undefined]
NoDatabase == [version |-> 0, stores |-> [n \in StoreNames |-> NoStore]]

\* indexedDB.open(name, 1): the host runs the upgrade when the database is
\* older than the requested version (a database that does not exist has
\* version 0), and the upgraded database has the requested version.
\* Variant: the host runs the upgrade on every open.
UpgradeNeeded_always(db) == TRUE

UpgradeNeeded(db) == db.version < DBVersion

\* Variant: the upgrade leaves the version as it was.
UpgradeVersion_keep(db) == db

UpgradeVersion(db) == [db EXCEPT !.version = DBVersion]

\* What the promises of createStore and createTransaction resolve with.
IDBDatabase == [t |-> "IDBDatabase", name |-> "nucleus_scouting"]
IDBObjectStore(tx, name) == [t |-> "IDBObjectStore", tx |-> tx, name |-> name]

\* createStore: the upgradeneeded handler.
DB_createStore_onupgradeneeded(db, storeName, keyPath) ==
    IF ~db.stores[storeName].exists
    THEN [db EXCEPT !.stores[storeName] = ObjectStore(keyPath, EmptyData)]
    ELSE db

\* createStore: the success and error handlers of the open request.
DB_createStore_onsuccess(p, db) == resolve(p, db)

\* Variant: the error handler logs the error and does not reject.
DB_createStore_onerror_logonly(p, error) == p

DB_createStore_onerror(p, error) == reject(p, Payload("open request error", error))

\* createTransaction: the executor.  db.transaction throws when the database
\* has no such store, and the exception rejects the promise; otherwise the
\* promise is resolved with the store of the new transaction t.
DB_createTransaction(p, db, storeName, t) ==
    IF ~db.stores[storeName].exists
    THEN reject(p, DOMException("NotFoundError"))
    ELSE resolve(p, IDBObjectStore(t, storeName))

\* createTransaction: the abort handler, set after the promise was resolved.
DB_createTransaction_onabort(p, error) == reject(p, Payload("transaction error", error))

\* The request each operation places on the store.
DB_get_request == "get"
DB_add_request == "add"
\* Variant: put places an add request.
DB_put_request_add == "add"
DB_put_request == "put"
DB_delete_request == "delete"
DB_clear_request == "clear"

RequestOf(op) ==
    CASE op = "get" -> DB_get_request
      [] op = "add" -> DB_add_request
      [] op = "put" -> DB_put_request
      [] op = "delete" -> DB_delete_request
      [] op = "clear" -> DB_clear_request

\* The success handlers: every one resolves with request.result.
\* Variant: get treats a missing record as a failure.
DB_get_onsuccess_strict(p, result) ==
    IF result = Undefined
    THEN reject(p, Payload("get request error", Undefined))
    ELSE resolve(p, result)

\* Variant: put resolves without the request's result.
DB_put_onsuccess_noresult(p, result) == resolve(p, Undefined)

DB_get_onsuccess(p, result) == resolve(p, result)
DB_add_onsuccess(p, result) == resolve(p, result)
DB_put_onsuccess(p, result) == resolve(p, result)
DB_delete_onsuccess(p, result) == resolve(p, result)
DB_clear_onsuccess(p, result) == resolve(p, result)

onsuccess(op, p, result) ==
    CASE op = "get" -> DB_get_onsuccess(p, result)
      [] op = "add" -> DB_add_onsuccess(p, result)
      [] op = "put" -> DB_put_onsuccess(p, result)
      [] op = "delete" -> DB_delete_onsuccess(p, result)
      [] op = "clear" -> DB_clear_onsuccess(p, result)

\* The error handlers: the promise after the handler, and whether the handler
\* called event.preventDefault(), which keeps the transaction from aborting.
DB_get_onerror(p, error) ==
    [promise |-> reject(p, Payload("get request error", error)), prevented |-> FALSE]

\* Variant: add handles ConstraintError like every other error.
DB_add_onerror_noprevent(p, error) ==
    [promise |-> reject(p, Payload("add request error", error)), prevented |-> FALSE]

DB_add_onerror(p, error) ==
    IF error.name = "ConstraintError"
    THEN [promise |-> p, prevented |-> TRUE]
    ELSE [promise |-> reject(p, Payload("add request error", error)), prevented |-> FALSE]

DB_put_onerror(p, error) ==
    [promise |-> reject(p, Payload("put request error", error)), prevented |-> FALSE]

DB_delete_onerror(p, error) ==
    [promise |-> reject(p, Payload("delete request error", error)), prevented |-> FALSE]

DB_clear_onerror(p, error) ==
    [promise |-> reject(p, Payload("clear request error", error)), prevented |-> FALSE]

onerror(op, p, error) ==
    CASE op = "get" -> DB_get_onerror(p, error)
      [] op = "add" -> DB_add_onerror(p, error)
      [] op = "put" -> DB_put_onerror(p, error)
      [] op = "delete" -> DB_delete_onerror(p, error)
      [] op = "clear" -> DB_clear_onerror(p, error)

(***************************************************************************)
(* The host's object stores.                                               *)
(***************************************************************************)
\* The key of a record: the value at the store's key path.
KeyOf(store, record) == GetProp(record, store.keyPath)

\* What store.get / add / put / delete / clear throws when called: the
\* transaction has finished, or the record has no key at the key path.
RequestException(request, txState, store, arg) ==
    IF txState # "active" THEN DOMException("TransactionInactiveError")
    ELSE IF request \in {"add", "put"} /\ KeyOf(store, arg).t # "string"
    THEN DOMException("DataError")
    ELSE NoFault

\* The error a request ends with for the store's data: an add of a key that
\* is present is a ConstraintError.
RequestError(request, store, arg) ==
    IF request = "add" /\ store.data[KeyOf(store, arg).s] # Undefined
    THEN DOMException("ConstraintError")
    ELSE NoFault

\* The store's data after a request that succeeds, and the request's result.
RequestData(request, store, arg) ==
    CASE request = "get" -> store.data
      [] request \in {"add", "put"} -> [store.data EXCEPT ![KeyOf(store, arg).s] = arg]
      [] request = "delete" -> [store.data EXCEPT ![arg.s] = Undefined]
      [] request = "clear" -> EmptyData

RequestResult(request, store, arg) ==
    CASE request = "get" -> store.data[arg.s]
      [] request \in {"add", "put"} -> KeyOf(store, arg)
      [] OTHER -> Undefined

(***************************************************************************)
(* State.                                                                  *)
(*   sessionStorage, localStorage  the two Storage areas of the host       *)
(*   views     the Cache Proxies constructed so far, in order              *)
(*   last      the latest storage or Cache call and its completion         *)
(*   written   history: per pool and field, the value of the latest Cache  *)
(*             field write since the pool key was last set directly        *)
(*   idb       the host's database: its version, its object stores         *)
(*   calls     the DB calls made so far, in order: each with its promise   *)
(*             and the state of the request it placed                      *)
(*   txs       the transactions created so far, in order                   *)
(*   traps     for each browsing context, the set traps in progress        *)
(*   done      the set traps completed by the browsing contexts, in order  *)
(***************************************************************************)
VARIABLES sessionStorage, localStorage, views, last, written, idb, calls, txs,
          traps, done, input, output, task, chain, anim, hook

raceVars == <<traps, done>>
storageVars == <<sessionStorage, localStorage, views, last, written, traps, done>>
dbVars == <<idb, calls, txs>>
utilVars == <<input, output, task, chain, anim, hook>>

\* A part of the library that no caller has used yet.
NotUsed == [used |-> FALSE]
UtilIdle ==
    /\ input = NotUsed /\ output = NotUsed /\ task = NotUsed
    /\ chain = NotUsed /\ anim = NotUsed /\ hook = NotUsed
vars == <<sessionStorage, localStorage, views, last, written, idb, calls, txs,
          traps, done, input, output, task, chain, anim, hook>>

\* Bounds of the storage side.
MaxViews == 2
MaxWrites == 2

\* The browsing contexts (tabs) that share localStorage.
Contexts == {1, 2}

Types == {"session", "local"}
PoolNames == {"pool"}
Keys == PoolNames \cup {"key"}
Fields == {"f", "g"}
\* What setItem may throw.
StorageFaults == {DOMException("QuotaExceededError")}
\* Values a caller assigns to a field of a view.
FieldValues == {NaN, Num("1"), Str("a")}
\* Values a caller hands to storage.set.
SetValues == {Undefined, Null, NaN, Num("1"), Str("a"), Obj(<< >>),
              Obj(<<Member("f", Num("1"))>>), Obj(<<Member("g", Str("a"))>>),
              Obj(<<Member("f", NaN), Member("g", Undefined)>>)}
\* Values a caller hands to storage.set on a pool key beside a view.
PoolSetValues == {Null, Num("1"), Obj(<<Member("g", Str("a"))>>)}
\* What the pool keys of both areas may hold when the program starts: nothing,
\* a text that is no JSON, an empty document, a document.
InitialItems == {Absent,
                 Item(<<LBrace, Tok("string", "f")>>),
                 Item(<<LBrace, RBrace>>),
                 Item(<<LBrace, Tok("string", "g"), Colon, Tok("number", "1"), RBrace>>)}

NotWritten == [t |-> "notwritten"]
\* The record of a call: the operation, its arguments, the host's answer to
\* its write (fault), the item its key held before (before), its completion
\* (out) and the number of storage.set and field write calls so far (n).
NoCall == [op |-> "none", type |-> "", key |-> "", view |-> 0, arg |-> Undefined,
           fault |-> NoFault, before |-> Absent, out |-> Return(Undefined), n |-> 0]
Call(op, type, key, view, arg, fault, before, out) ==
    [op |-> op, type |-> type, key |-> key, view |-> view, arg |-> arg,
     fault |-> fault, before |-> before, out |-> out,
     n |-> IF op \in {"storage.set", "Cache.set"} THEN last.n + 1 ELSE last.n]

W == [session |-> sessionStorage, local |-> localStorage]

StorageInit ==
    /\ \E i \in InitialItems :
          /\ sessionStorage = [k \in Keys |-> IF k \in PoolNames THEN i ELSE Absent]
          /\ localStorage = [k \in Keys |-> IF k \in PoolNames THEN i ELSE Absent]
    /\ views = << >>
    /\ last = NoCall
    /\ written = [ty \in Types |-> [p \in PoolNames |-> [f \in Fields |-> NotWritten]]]
    /\ idb = NoDatabase /\ calls = << >> /\ txs = << >>
    /\ traps = [k \in Contexts |-> << >>] /\ done = << >>
    /\ UtilIdle

\* A caller's storage[type].set(key, value).
StorageSet(type, key, value, fault) ==
    LET r == storage_set(W, type, key, value, fault) IN
    /\ sessionStorage' = r.w.session
    /\ localStorage' = r.w.local
    /\ last' = Call("storage.set", type, key, 0, value, fault, W[type][key], r.out)
    /\ written' = IF r.out.kind = "return" /\ key \in PoolNames
                  THEN [written EXCEPT ![type][key] = [f \in Fields |-> NotWritten]]
                  ELSE written
    /\ UNCHANGED <<views, dbVars, raceVars, utilVars>>

\* A caller's storage[type].get(key).
StorageGet(type, key) ==
    /\ last' = Call("storage.get", type, key, 0, Undefined, NoFault, W[type][key],
                    Return(storage_get(W, type, key)))
    /\ UNCHANGED <<sessionStorage, localStorage, views, written, dbVars, raceVars, utilVars>>

\* A caller's Cache(type, pool).  The host's answer is consulted only when the
\* constructor writes.
CacheNew(type, pool, fault) ==
    LET r == Cache(W, type, pool, fault) IN
    /\ Len(views) < MaxViews
    /\ sessionStorage' = r.w.session
    /\ localStorage' = r.w.local
    /\ views' = IF r.out.kind = "return" THEN Append(views, r.out.v) ELSE views
    /\ last' = Call("Cache", type, pool, Len(views) + 1, Undefined,
                    IF Truthy(storage_get(W, type, pool)) THEN NoFault ELSE fault,
                    W[type][pool], r.out)
    /\ UNCHANGED <<written, dbVars, raceVars, utilVars>>

\* A caller's read of view.prop.
CacheGet(i, prop) ==
    /\ i \in 1..Len(views)
    /\ last' = Call("Cache.get", views[i].type, prop, i, Undefined, NoFault,
                    W[views[i].type][views[i].pool], Cache_get(W, views[i], prop))
    /\ UNCHANGED <<sessionStorage, localStorage, views, written, dbVars, raceVars, utilVars>>

\* A caller's view.prop = value.
CacheSet(i, prop, value, fault) ==
    /\ i \in 1..Len(views)
    /\ LET r == Cache_set(W, views[i], prop, value, fault) IN
       /\ sessionStorage' = r.w.session
       /\ localStorage' = r.w.local
       /\ last' = Call("Cache.set", views[i].type, prop, i, value, fault,
                       W[views[i].type][views[i].pool], r.out)
       /\ written' = IF r.out.kind = "return"
                     THEN [written EXCEPT ![views[i].type][views[i].pool][prop] = value]
                     ELSE written
    /\ UNCHANGED <<views, dbVars, raceVars, utilVars>>

\* A caller's Object.keys(view).
CacheKeys(i) ==
    /\ i \in 1..Len(views)
    /\ last' = Call("Object.keys", views[i].type, "", i, Undefined, NoFault,
                    W[views[i].type][views[i].pool],
                    LET r == ObjectKeys(W, views[i]) IN
                    IF r.kind = "throw" THEN r ELSE Return([t |-> "keys", o |-> r.v]))
    /\ UNCHANGED <<sessionStorage, localStorage, views, written, dbVars, raceVars, utilVars>>

\* Callers of storage alone, on every key of both areas.
StorageNext ==
    \/ \E type \in Types, key \in Keys, value \in SetValues,
          fault \in StorageFaults \cup {NoFault} :
          last.n < MaxWrites /\ StorageSet(type, key, value, fault)
    \/ \E type \in Types, key \in Keys : StorageGet(type, key)

\* Callers of Cache views, and of storage.set on the pool keys.
CacheNext ==
    \/ \E type \in Types, pool \in PoolNames, fault \in StorageFaults \cup {NoFault} :
          CacheNew(type, pool, fault)
    \/ \E i \in 1..MaxViews, prop \in Fields : CacheGet(i, prop)
    \/ \E i \in 1..MaxViews, prop \in Fields, value \in FieldValues,
          fault \in StorageFaults \cup {NoFault} :
          last.n < MaxWrites /\ CacheSet(i, prop, value, fault)
    \/ \E i \in 1..MaxViews : CacheKeys(i)
    \/ \E type \in Types, pool \in PoolNames, value \in PoolSetValues,
          fault \in StorageFaults \cup {NoFault} :
          last.n < MaxWrites /\ StorageSet(type, pool, value, fault)

StorageSpec == StorageInit /\ [][StorageNext]_vars

CacheSpec == StorageInit /\ [][CacheNext]_vars

(***************************************************************************)
(* Field writes of two browsing contexts on one pool of localStorage.      *)
(* Each context has its own view of the pool.  The set trap reads the pool *)
(* and then stores the document; the contexts run in parallel, so a step   *)
(* of one context can fall between the two parts of a trap of the other.   *)
(* Inside a context code runs to completion: a second trap runs while one  *)
(* is in progress only when JSON.stringify, in storage.set, calls the      *)
(* toJSON() of the value being written and that method writes a field.     *)
(***************************************************************************)
RaceView == Proxy("local", "pool")

\* The values the contexts write: plain ones, and objects whose toJSON()
\* writes a field of the same pool.
PlainValues == {Num("1"), Str("a")}
RaceValues == PlainValues \cup {WritingValue(p, Num("1"), Num("2")) : p \in Fields}

\* A trap in progress: its arguments, the document it built from its read of
\* the pool, and whether JSON.stringify has called the value's toJSON().
Frame(prop, value, document) ==
    [prop |-> prop, value |-> value, document |-> document, called |-> FALSE]

\* The number of traps begun so far.
WritesStarted == Len(done) + Len(traps[1]) + Len(traps[2])

\* Variant: a context begins a trap while another one of its traps is in
\* progress.
CanStartWrite_any(stack) == TRUE

\* The set trap is synchronous: the code of a context begins a trap only when
\* none of its traps is in progress.
CanStartWrite(stack) == stack = << >>

\* Both contexts have made their view: the pool holds a document.
RaceInit ==
    /\ localStorage = [k \in Keys |-> IF k \in PoolNames
                                      THEN Item(<<LBrace, RBrace>>) ELSE Absent]
    /\ sessionStorage = [k \in Keys |-> Absent]
    /\ views = <<RaceView, RaceView>>
    /\ last = NoCall
    /\ written = [ty \in Types |-> [p \in PoolNames |-> [f \in Fields |-> NotWritten]]]
    /\ idb = NoDatabase
    /\ calls = << >>
    /\ txs = << >>
    /\ traps = [k \in Contexts |-> << >>]
    /\ done = << >>
    /\ UtilIdle

\* Context k begins view[prop] = value: the trap reads the pool and builds
\* the document.
TrapRead(k, prop, value) ==
    /\ CanStartWrite(traps[k])
    /\ WritesStarted + (IF value.t = "tojson" THEN 2 ELSE 1) <= MaxWrites
    /\ traps' = [traps EXCEPT
                   ![k] = <<Frame(prop, value,
                                  Cache_set_document(W, views[k], prop, value))>> \o @]
    /\ UNCHANGED <<sessionStorage, localStorage, views, last, written, done, dbVars, utilVars>>

\* JSON.stringify calls the toJSON() of the value of context k's trap, which
\* begins the write of a field through the same view.
TrapNested(k) ==
    /\ traps[k] # << >>
    /\ Head(traps[k]).value.t = "tojson"
    /\ ~Head(traps[k]).called
    /\ LET outer == Head(traps[k])
           inner == Frame(outer.value.prop, outer.value.value,
                          Cache_set_document(W, views[k], outer.value.prop,
                                             outer.value.value))
       IN traps' = [traps EXCEPT
                      ![k] = <<inner, [outer EXCEPT !.called = TRUE]>> \o Tail(@)]
    /\ UNCHANGED <<sessionStorage, localStorage, views, last, written, done, dbVars, utilVars>>

\* The completed trap, as recorded.
Done(k, frame, out) ==
    [ctx |-> k, prop |-> frame.prop, value |-> frame.value,
     document |-> frame.document, out |-> out]

\* The innermost trap of context k stores its document.  What a trap begun
\* by toJSON() throws passes through JSON.stringify into the catch of the
\* outer trap, which throws in turn and stores nothing.
TrapStore(k, fault) ==
    /\ traps[k] # << >>
    /\ Head(traps[k]).value.t = "tojson" => Head(traps[k]).called
    /\ LET frame == Head(traps[k])
           r == Cache_set_store(W, views[k], frame.document, fault)
           nested == Len(traps[k]) > 1
           thrown == r.out.kind = "throw"
       IN /\ sessionStorage' = r.w.session
          /\ localStorage' = r.w.local
          /\ traps' = [traps EXCEPT
                         ![k] = IF nested /\ thrown THEN Tail(Tail(@)) ELSE Tail(@)]
          /\ done' = IF nested /\ thrown
                     THEN done \o <<Done(k, frame, r.out),
                                    Done(k, traps[k][2],
                                         Throw(Error(Cache_set_message(r.out.v))))>>
                     ELSE Append(done, Done(k, frame, r.out))
          /\ last' = Call("Cache.set", "local", frame.prop, k, frame.value, fault,
                          W.local["pool"], r.out)
          /\ written' = IF thrown THEN written
                        ELSE [written EXCEPT !["local"]["pool"][frame.prop] = frame.value]
    /\ UNCHANGED <<views, dbVars, utilVars>>

RaceNext ==
    \/ \E k \in Contexts, prop \in Fields, value \in RaceValues : TrapRead(k, prop, value)
    \/ \E k \in Contexts : TrapNested(k)
    \/ \E k \in Contexts, fault \in StorageFaults \cup {NoFault} : TrapStore(k, fault)

RaceSpec == RaceInit /\ [][RaceNext]_vars

(***************************************************************************)
(* The DB side: callers of DB and the host's IndexedDB events.             *)
(***************************************************************************)
\* Bound of the DB side: the number of DB calls of a behaviour.
MaxCalls == 4

\* What the host may report on an open request, a request or a transaction.
DBFaults == {DOMException("UnknownError")}
AbortError == DOMException("AbortError")

Record(id, size) == Obj(<<Member("id", Str(id)), Member("size", Num(size))>>)
\* Records a caller adds or puts; the last one has no id.
DBRecords == {Record("a", "10"), Record("a", "20"), Obj(<<Member("size", Num("10"))>>)}

\* The database when the program starts: none, or version 1 with the store
\* files holding one record.
InitialDatabases ==
    {NoDatabase,
     [version |-> DBVersion,
      stores |-> [n \in StoreNames |->
                    IF n = "files"
                    THEN ObjectStore("id", [EmptyData EXCEPT !["a"] = Record("a", "10")])
                    ELSE NoStore]]}

\* A call: the DB function (op), the store name and argument it was given,
\* its transaction (tx, 0 when none), the request it placed on the store
\* (request) and that request's state (req), its promise, and the failure the
\* host reported for it (error).
NewCall(op, store, tx, arg, request, req, promise, error) ==
    [op |-> op, store |-> store, tx |-> tx, arg |-> arg, request |-> request,
     req |-> req, promise |-> promise, error |-> error]

Requests == {"get", "add", "put", "delete", "clear"}

DBInit ==
    /\ idb \in InitialDatabases
    /\ calls = << >>
    /\ txs = << >>
    /\ sessionStorage = [k \in Keys |-> Absent]
    /\ localStorage = [k \in Keys |-> Absent]
    /\ views = << >>
    /\ last = NoCall
    /\ written = [ty \in Types |-> [p \in PoolNames |-> [f \in Fields |-> NotWritten]]]
    /\ traps = [k \in Contexts |-> << >>]
    /\ done = << >>
    /\ UtilIdle

\* The host serves the open requests of a database in order.
IsNextOpen(c) ==
    \A c2 \in 1..(c - 1) : calls[c2].op = "createStore" => calls[c2].req = "done"

\* The host serves the requests of a transaction in order, and the read-write
\* transactions of a store one after the other.
FirstPending(c) ==
    \A c2 \in 1..(c - 1) : calls[c2].tx = calls[c].tx => calls[c2].req # "pending"

TxRunnable(t) ==
    \A t2 \in 1..(t - 1) : txs[t2].store = txs[t].store => txs[t2].state # "active"

\* A caller's DB.createStore(storeName, keyPath): the open request is placed.
DBCreateStore(storeName, keyPath) ==
    /\ calls' = Append(calls, NewCall("createStore", storeName, 0, Str(keyPath),
                                      "open", "pending", Pending, NoFault))
    /\ UNCHANGED <<idb, txs, storageVars, utilVars>>

\* The host creates the database and fires upgradeneeded.
HostOpenUpgradeNeeded(c) ==
    /\ c \in 1..Len(calls)
    /\ calls[c].op = "createStore" /\ calls[c].req \in {"pending", "blocked"}
    /\ IsNextOpen(c)
    /\ UpgradeNeeded(idb)
    /\ idb' = DB_createStore_onupgradeneeded(UpgradeVersion(idb),
                                             calls[c].store, calls[c].arg.s)
    /\ calls' = [calls EXCEPT ![c].req = "upgraded"]
    /\ UNCHANGED <<txs, storageVars, utilVars>>

\* The host fires success on the open request.
HostOpenSuccess(c) ==
    /\ c \in 1..Len(calls)
    /\ calls[c].op = "createStore" /\ IsNextOpen(c)
    /\ \/ calls[c].req = "upgraded"
       \/ calls[c].req \in {"pending", "blocked"} /\ ~UpgradeNeeded(idb)
    /\ calls' = [calls EXCEPT ![c].req = "done",
                              ![c].promise = DB_createStore_onsuccess(@, IDBDatabase)]
    /\ UNCHANGED <<idb, txs, storageVars, utilVars>>

\* The host fires error on the open request; a database created for it is
\* removed again.
HostOpenError(c, error) ==
    /\ c \in 1..Len(calls)
    /\ calls[c].op = "createStore" /\ IsNextOpen(c)
    /\ calls[c].req \in {"pending", "blocked", "upgraded"}
    /\ calls' = [calls EXCEPT ![c].req = "done", ![c].error = error,
                              ![c].promise = DB_createStore_onerror(@, error)]
    /\ idb' = IF calls[c].req = "upgraded" THEN NoDatabase ELSE idb
    /\ UNCHANGED <<txs, storageVars, utilVars>>

\* The host holds the open request back while another connection keeps the
\* database (the blocked event): the code registers no handler for it.
HostOpenBlocked(c) ==
    /\ c \in 1..Len(calls)
    /\ calls[c].op = "createStore" /\ IsNextOpen(c)
    /\ calls[c].req = "pending"
    /\ calls' = [calls EXCEPT ![c].req = "blocked"]
    /\ UNCHANGED <<idb, txs, storageVars, utilVars>>

\* A caller's DB.createTransaction(db, storeName), db being the result of the
\* createStore call d.
DBCreateTransaction(d, storeName) ==
    /\ d \in 1..Len(calls)
    /\ calls[d].op = "createStore" /\ calls[d].promise.state = "fulfilled"
    /\ LET t == Len(txs) + 1
           p == DB_createTransaction(Pending, idb, storeName, t)
       IN IF p.state = "rejected"
          THEN /\ calls' = Append(calls, NewCall("createTransaction", storeName, 0,
                                                 Undefined, "none", "none", p, p.value))
               /\ txs' = txs
          ELSE /\ calls' = Append(calls, NewCall("createTransaction", storeName, t,
                                                 Undefined, "none", "none", p, NoFault))
               /\ txs' = Append(txs, [store |-> storeName, state |-> "active",
                                      started |-> FALSE, undo |-> EmptyData,
                                      error |-> NoFault, call |-> Len(calls) + 1])
    /\ UNCHANGED <<idb, storageVars, utilVars>>

\* A caller's DB.get / add / put / delete / clear(store, arg), store being the
\* result of the createTransaction call h.  What the store's method throws
\* rejects the promise; otherwise the request is placed.
DBRequest(op, h, arg) ==
    /\ h \in 1..Len(calls)
    /\ calls[h].op = "createTransaction" /\ calls[h].promise.state = "fulfilled"
    /\ LET t == calls[h].promise.value.tx
           e == RequestException(RequestOf(op), txs[t].state, idb.stores[txs[t].store], arg)
       IN calls' = Append(calls,
                     IF e # NoFault
                     THEN NewCall(op, txs[t].store, t, arg, RequestOf(op), "none",
                                  reject(Pending, e), e)
                     ELSE NewCall(op, txs[t].store, t, arg, RequestOf(op), "pending",
                                  Pending, NoFault))
    /\ UNCHANGED <<idb, txs, storageVars, utilVars>>

\* The host carries a request out and fires success on it.
HostRequestSuccess(c) ==
    /\ c \in 1..Len(calls)
    /\ calls[c].op \in Requests /\ calls[c].req = "pending"
    /\ FirstPending(c) /\ TxRunnable(calls[c].tx)
    /\ LET t == calls[c].tx
           store == idb.stores[txs[t].store]
       IN /\ RequestError(calls[c].request, store, calls[c].arg) = NoFault
          /\ idb' = [idb EXCEPT !.stores[txs[t].store].data =
                                    RequestData(calls[c].request, store, calls[c].arg)]
          /\ txs' = [txs EXCEPT ![t].started = TRUE,
                                ![t].undo = IF txs[t].started THEN @ ELSE store.data]
          /\ calls' = [calls EXCEPT
                         ![c].req = "done",
                         ![c].promise = onsuccess(calls[c].op, @,
                              RequestResult(calls[c].request, store, calls[c].arg))]
    /\ UNCHANGED <<storageVars, utilVars>>

\* The calls after transaction t aborted with error: its pending requests get
\* an AbortError, then the abort handler of createTransaction runs.
AbortedCalls(cs, t, error) ==
    [i \in 1..Len(cs) |->
        IF i = txs[t].call
        THEN [cs[i] EXCEPT !.promise = DB_createTransaction_onabort(@, error),
                           !.error = error]
        ELSE IF cs[i].tx = t /\ cs[i].req = "pending"
        THEN [cs[i] EXCEPT !.req = "done", !.error = AbortError,
                           !.promise = onerror(cs[i].op, @, AbortError).promise]
        ELSE cs[i]]

\* The database after transaction t aborted: what it wrote is undone.
AbortedDatabase(t) ==
    IF txs[t].started
    THEN [idb EXCEPT !.stores[txs[t].store].data = txs[t].undo]
    ELSE idb

\* The host fires error on a request: a ConstraintError for an add of a key
\* that is present, a fault of its own otherwise.  Unless the handler
\* prevented the default, the transaction aborts.
HostRequestError(c, error) ==
    /\ c \in 1..Len(calls)
    /\ calls[c].op \in Requests /\ calls[c].req = "pending"
    /\ FirstPending(c) /\ TxRunnable(calls[c].tx)
    /\ LET t == calls[c].tx
           store == idb.stores[txs[t].store]
           r == onerror(calls[c].op, calls[c].promise, error)
           cs == [calls EXCEPT ![c].req = "done", ![c].error = error,
                               ![c].promise = r.promise]
       IN /\ (error.name = "ConstraintError")
                => RequestError(calls[c].request, store, calls[c].arg) = error
          /\ IF r.prevented
             THEN /\ calls' = cs
                  /\ txs' = [txs EXCEPT ![t].started = TRUE,
                                        ![t].undo = IF txs[t].started THEN @ ELSE store.data]
                  /\ idb' = idb
             ELSE /\ calls' = AbortedCalls(cs, t, error)
                  /\ txs' = [txs EXCEPT ![t].state = "aborted", ![t].error = error]
                  /\ idb' = AbortedDatabase(t)
    /\ UNCHANGED <<storageVars, utilVars>>

\* The host aborts a transaction on a fault of its own.
HostTxAbort(t, error) ==
    /\ t \in 1..Len(txs)
    /\ txs[t].state = "active"
    /\ calls' = AbortedCalls(calls, t, error)
    /\ txs' = [txs EXCEPT ![t].state = "aborted", ![t].error = error]
    /\ idb' = AbortedDatabase(t)
    /\ UNCHANGED <<storageVars, utilVars>>

\* The host commits a transaction that has no request left to serve.
HostTxCommit(t) ==
    /\ t \in 1..Len(txs)
    /\ txs[t].state = "active"
    /\ \A c \in 1..Len(calls) : calls[c].tx = t => calls[c].req # "pending"
    /\ txs' = [txs EXCEPT ![t].state = "committed"]
    /\ UNCHANGED <<idb, calls, storageVars, utilVars>>

\* The host's events.
HostNext ==
    \/ \E c \in 1..Len(calls) : HostOpenUpgradeNeeded(c)
    \/ \E c \in 1..Len(calls) : HostOpenSuccess(c)
    \/ \E c \in 1..Len(calls), error \in DBFaults : HostOpenError(c, error)
    \/ \E c \in 1..Len(calls) : HostOpenBlocked(c)
    \/ \E c \in 1..Len(calls) : HostRequestSuccess(c)
    \/ \E c \in 1..Len(calls), error \in DBFaults \cup {DOMException("ConstraintError")} :
          HostRequestError(c, error)
    \/ \E t \in 1..Len(txs), error \in DBFaults : HostTxAbort(t, error)
    \/ \E t \in 1..Len(txs) : HostTxCommit(t)

\* Callers of DB: any call, with the results of earlier calls.
DBNext ==
    \/ \E storeName \in StoreNames :
          Len(calls) < MaxCalls /\ DBCreateStore(storeName, "id")
    \/ \E d \in 1..Len(calls), storeName \in StoreNames :
          Len(calls) < MaxCalls /\ DBCreateTransaction(d, storeName)
    \/ \E h \in 1..Len(calls), key \in DBKeys :
          Len(calls) < MaxCalls /\ DBRequest("get", h, Str(key))
    \/ \E h \in 1..Len(calls), record \in DBRecords :
          Len(calls) < MaxCalls /\ DBRequest("add", h, record)
    \/ \E h \in 1..Len(calls), record \in DBRecords :
          Len(calls) < MaxCalls /\ DBRequest("put", h, record)
    \/ \E h \in 1..Len(calls), key \in DBKeys :
          Len(calls) < MaxCalls /\ DBRequest("delete", h, Str(key))
    \/ \E h \in 1..Len(calls) :
          Len(calls) < MaxCalls /\ DBRequest("clear", h, Undefined)
    \/ HostNext

DBSpec == DBInit /\ [][DBNext]_vars

(***************************************************************************)
(* The scenario of the usage example: one caller, one transaction per      *)
(* operation, every promise awaited before the next call.                  *)
(***************************************************************************)
ScenarioOps ==
    <<[op |-> "add", arg |-> Record("a", "10")],
      [op |-> "get", arg |-> Str("a")],
      [op |-> "put", arg |-> Record("a", "20")],
      [op |-> "get", arg |-> Str("a")],
      [op |-> "clear", arg |-> Undefined],
      [op |-> "get", arg |-> Str("a")]>>

\* createStore, then createTransaction and one operation for each entry.
ScenarioLen == 1 + 2 * Len(ScenarioOps)

\* The scenario starts from a fresh database.
ScenarioInit ==
    /\ idb = NoDatabase
    /\ calls = << >>
    /\ txs = << >>
    /\ sessionStorage = [k \in Keys |-> Absent]
    /\ localStorage = [k \in Keys |-> Absent]
    /\ views = << >>
    /\ last = NoCall
    /\ written = [ty \in Types |-> [p \in PoolNames |-> [f \in Fields |-> NotWritten]]]
    /\ traps = [k \in Contexts |-> << >>]
    /\ done = << >>
    /\ UtilIdle

\* The caller's next call, made when the promise it awaits is fulfilled.
ScenarioStep ==
    /\ Len(calls) < ScenarioLen
    /\ Len(calls) > 0 => calls[Len(calls)].promise.state = "fulfilled"
    /\ LET n == Len(calls) + 1
       IN IF n = 1 THEN DBCreateStore("files", "id")
          ELSE IF n % 2 = 0 THEN DBCreateTransaction(1, "files")
          ELSE DBRequest(ScenarioOps[(n - 1) \div 2].op, n - 1,
                         ScenarioOps[(n - 1) \div 2].arg)

\* The host's events.  The caller places its request in the continuation of
\* the resolved createTransaction promise, before the host can commit the
\* transaction.
ScenarioNext ==
    \/ ScenarioStep
    \/ \E c \in 1..Len(calls) : HostOpenUpgradeNeeded(c)
    \/ \E c \in 1..Len(calls) : HostOpenSuccess(c)
    \/ \E c \in 1..Len(calls), error \in DBFaults : HostOpenError(c, error)
    \/ \E c \in 1..Len(calls) : HostOpenBlocked(c)
    \/ \E c \in 1..Len(calls) : HostRequestSuccess(c)
    \/ \E c \in 1..Len(calls), error \in DBFaults \cup {DOMException("ConstraintError")} :
          HostRequestError(c, error)
    \/ \E t \in 1..Len(txs), error \in DBFaults : HostTxAbort(t, error)
    \/ \E t \in 1..Len(txs) :
          /\ \E c \in 1..Len(calls) : calls[c].tx = t /\ calls[c].op \in Requests
          /\ HostTxCommit(t)

ScenarioSpec == ScenarioInit /\ [][ScenarioNext]_vars

(***************************************************************************)
(* Properties of storage and Cache.                                        *)
(***************************************************************************)
\* A value JSON represents: null, a number other than NaN, a string, or an
\* object all of whose members are such values.
JSONSerializable(v) ==
    \/ v.t \in {"null", "number", "string"}
    \/ /\ v.t = "object"
       /\ \A i \in 1..Len(v.o) : v.o[i].v.t \in {"null", "number", "string"}

\* The pool document as the Storage area holds it now: the members of the
\* JSON object stored under the pool key, none when no object is stored.
StoredMembers(type, pool) ==
    LET item == W[type][pool]
        r == IF item.present THEN JSONParse(item.text) ELSE SyntaxError
    IN IF r.ok /\ r.v.t = "object" THEN r.v.o ELSE << >>

StoredField(type, pool, prop) == LookupMember(StoredMembers(type, pool), prop)

StoredKeys(type, pool) ==
    {StoredMembers(type, pool)[i].k : i \in 1..Len(StoredMembers(type, pool))}

\* C5: after any sequence of field writes through Cache views of a pool, a
\* read of field f returns the JSON-serializable value most recently written
\* to f, and every field g holds its most recently written value whatever
\* other fields were written since.
C5_FieldWritesKept ==
    /\ \A ty \in Types, p \in PoolNames, g \in Fields :
          (written[ty][p][g] # NotWritten /\ JSONSerializable(written[ty][p][g]))
             => StoredField(ty, p, g) = written[ty][p][g]
    /\ (last.op = "Cache.get"
        /\ written[last.type][views[last.view].pool][last.key] # NotWritten
        /\ JSONSerializable(written[last.type][views[last.view].pool][last.key]))
          => last.out = Return(written[last.type][views[last.view].pool][last.key])

\* C5 witness: g was written, then f, and the read of g returns g's value.
C5_Witness ==
    /\ last.op = "Cache.get" /\ last.key = "g" /\ last.n = 2
    /\ written[last.type]["pool"]["g"] = Num("1")
    /\ written[last.type]["pool"]["f"] = Str("a")
    /\ last.out = Return(Num("1"))

\* C6: a field read through any Cache view returns that field's value in the
\* pool document stored at the time of the read, whichever view or direct
\* storage.set call wrote it.
C6_ReadIsStoredField ==
    last.op = "Cache.get"
       => last.out = Return(StoredField(last.type, views[last.view].pool, last.key))

\* C6 witness: two views on the same pool, a field holds a value only a field
\* write can have given it, and the read through the second view returns it.
C6_Witness ==
    /\ Len(views) = 2 /\ views[1] = views[2]
    /\ last.op = "Cache.get" /\ last.view = 2 /\ last.key = "f"
    /\ last.out = Return(Str("a"))

\* C7: Object.keys(view) returns exactly the key set of the pool document
\* stored at the moment of the call, in every state after construction.
C7_KeysAreStoredKeys ==
    last.op = "Object.keys"
       => /\ last.out.kind = "return"
          /\ {last.out.v.o[i] : i \in 1..Len(last.out.v.o)}
                = StoredKeys(last.type, views[last.view].pool)

\* C8 as stated: a fault of the store write during a field write reaches the
\* caller unmodified.
C8_FaultUnmodified ==
    (last.op = "Cache.set" /\ last.fault # NoFault) => last.out = Throw(last.fault)

\* C8 amended: a fault of the store write during a field write is caught and
\* the caller receives a new Error whose message is "Cache.set error: "
\* followed by the JSON text of the fault, and the stored item is unchanged.
C8_FaultWrapped ==
    (last.op = "Cache.set" /\ last.fault # NoFault)
       => /\ last.out = Throw(Error(<<Tok("chars", "Cache.set error: "), LBrace, RBrace>>))
          /\ W[last.type][views[last.view].pool] = last.before

\* C8 witness: a field write whose store write the host refused.
C8_Witness ==
    /\ last.op = "Cache.set" /\ last.fault = DOMException("QuotaExceededError")
    /\ last.out.kind = "throw"

\* C9: after storage[type].set(k, v) returns for a JSON-serializable v, a get
\* of k returns v, whatever item k held before.
C9_SetThenGet ==
    (last.op = "storage.set" /\ last.out.kind = "return" /\ JSONSerializable(last.arg))
       => storage_get(W, last.type, last.key) = last.arg

\* C9 witness: an object was set over a stored object with another field.
C9_Witness ==
    /\ last.op = "storage.set" /\ last.out.kind = "return"
    /\ last.arg = Obj(<<Member("f", Num("1"))>>)
    /\ last.before = Item(<<LBrace, Tok("string", "g"), Colon, Tok("number", "1"), RBrace>>)

\* C16: Cache(type, pool) on a pool whose item is absent stores the empty
\* document {} under the pool name, and every field read through the new view
\* then returns undefined; on a pool that holds a document it returns a view
\* and leaves the item as it was.
C16_ConstructionNormalizes ==
    last.op = "Cache"
    => /\ (~last.before.present /\ last.out.kind = "return")
          => /\ W[last.type][last.key] = Item(<<LBrace, RBrace>>)
             /\ \A f \in Fields : Cache_get(W, last.out.v, f) = Return(Undefined)
       /\ parse(last.before).t = "object"
          => /\ W[last.type][last.key] = last.before
             /\ last.out.kind = "return"

C16_Witness ==
    /\ last.op = "Cache"
    /\ ~last.before.present
    /\ last.out.kind = "return"
    /\ W[last.type][last.key] = Item(<<LBrace, RBrace>>)
    /\ Len(views) = 1

\* The text of an item is not JSON.
NotJSON(item) == item.present /\ ~JSONParse(item.text).ok

\* C17: storage[type].get(key) returns null, and does not throw, when the
\* item of the key is absent or its text is not valid JSON.
C17_GetDecodeFailureIsNull ==
    (last.op = "storage.get" /\ (~last.before.present \/ NotJSON(last.before)))
    => last.out = Return(Null)

C17_Witness ==
    /\ last.op = "storage.get"
    /\ NotJSON(last.before)
    /\ last.out = Return(Null)

\* C18: when the host refuses the write of storage[type].set(key, value), the
\* call throws the host's fault itself and the item of the key is what it
\* was before the call.
C18_SetFaultUnmodified ==
    (last.op = "storage.set" /\ last.fault # NoFault)
    => /\ last.out = Throw(last.fault)
       /\ W[last.type][last.key] = last.before

C18_Witness ==
    /\ last.op = "storage.set"
    /\ last.fault # NoFault
    /\ last.before.present
    /\ last.out = Throw(last.fault)
    /\ W[last.type][last.key] = last.before
    /\ last.n = 2

\* The traps that stored their document, in order.
Stored == SelectSeq(done, LAMBDA e : e.out.kind = "return")

\* The value a field holds once a written value is stored.
StoredValue(v) == IF v.t = "tojson" THEN v.json ELSE v

\* C19: the pool of localStorage always holds the whole document of the trap
\* that stored last, as that trap built it from its own read of the pool:
\* what another context stored between that read and the store is replaced
\* with it, field by field written or not.
C19_LastDocumentWins ==
    localStorage["pool"] =
        IF Stored = << >> THEN Item(<<LBrace, RBrace>>)
        ELSE Item(ToDOMString(JSONStringify(Stored[Len(Stored)].document)))

\* C19 witness: context 1 stored field f, then context 2 stored field g with
\* a document read before, and f is gone.
C19_Witness ==
    /\ Len(done) = 2
    /\ done[1].ctx = 1 /\ done[2].ctx = 2
    /\ done[1].prop = "f" /\ done[2].prop = "g"
    /\ done[1].value \in PlainValues /\ done[2].value \in PlainValues
    /\ done[1].out.kind = "return" /\ done[2].out.kind = "return"
    /\ written["local"]["pool"]["f"] = done[1].value
    /\ StoredField("local", "pool", "f") = Undefined
    /\ StoredField("local", "pool", "g") = done[2].value

\* C20: a context has a second field write in progress, between the read and
\* the store of a first one, exactly as the write the toJSON() of the first
\* write's value makes while JSON.stringify serializes the first write's
\* document; when the first write then stores, the field the nested write
\* stored is back to what the first write had read: the update is lost.
C20_NestedWriteOnly ==
    /\ \A k \in Contexts :
          /\ Len(traps[k]) <= 2
          /\ Len(traps[k]) = 2
                => /\ traps[k][2].value.t = "tojson"
                   /\ traps[k][2].called
                   /\ traps[k][1].prop = traps[k][2].value.prop
                   /\ traps[k][1].value = traps[k][2].value.value
    /\ (done # << >> /\ done[Len(done)].value.t = "tojson"
           /\ done[Len(done)].out.kind = "return")
          => StoredField("local", "pool", done[Len(done)].value.prop)
                = StoredValue(GetProp(done[Len(done)].document,
                                      done[Len(done)].value.prop))

\* C20 witness: in one context, with the other idle, the write of f whose
\* value's toJSON() writes g has stored, and g, stored by the nested write,
\* is gone.
C20_Witness ==
    /\ Len(done) = 2
    /\ done[1].ctx = 1 /\ done[2].ctx = 1
    /\ done[1].prop = "g" /\ done[1].out.kind = "return"
    /\ done[2].prop = "f" /\ done[2].out.kind = "return"
    /\ done[2].value = WritingValue("g", Num("1"), Num("2"))
    /\ written["local"]["pool"]["g"] = Num("1")
    /\ StoredField("local", "pool", "g") = Undefined
    /\ StoredField("local", "pool", "f") = Num("2")
    /\ \A k \in Contexts : traps[k] = << >>

\* The key the last call wrote: the key of storage.set, the pool of a view
\* write and of the constructor.
WrittenKey(call) ==
    IF call.op = "Cache.set" THEN views[call.view].pool ELSE call.key

\* C29: a step changes the item of a key of an area only when it is a
\* storage[type].set on that key of that area, or a field write or a
\* construction of a Cache of that type on that pool: every other key of the
\* area and every key of the other area are left as they were.
C29_WritesOnlyOwnKey ==
    [][\A type \in Types, key \in Keys :
          W'[type][key] # W[type][key]
          => /\ last'.op \in {"storage.set", "Cache.set", "Cache"}
             /\ last'.type = type
             /\ WrittenKey(last') = key]_vars

\* C29 witness: the session pool was written through a view and by
\* storage.set while the local pool and the other keys are what they were.
C29_Witness ==
    /\ last.op = "storage.set" /\ last.type = "session" /\ last.out.kind = "return"
    /\ last.n = 2
    /\ \E f \in Fields : written["session"]["pool"][f] = NotWritten
    /\ sessionStorage["pool"] # localStorage["pool"]
    /\ localStorage["pool"] = Item(<<LBrace, RBrace>>)
    /\ sessionStorage["key"] = Absent /\ localStorage["key"] = Absent
    /\ Len(views) = 2

(***************************************************************************)
(* Properties of DB.                                                       *)
(***************************************************************************)
ConstraintError == DOMException("ConstraintError")

\* The transaction of call c is finished: no event can reach the call's
\* request any more.
TxFinished(c) == txs[calls[c].tx].state # "active"

\* C1: a DB.add of a record whose key is present, for which the host reported
\* ConstraintError, has its promise resolved (not rejected, not left pending)
\* by the time its transaction is finished.
C1_AddDuplicateResolves ==
    \A c \in 1..Len(calls) :
        (calls[c].op = "add" /\ calls[c].req = "done"
            /\ calls[c].error = ConstraintError /\ TxFinished(c))
        => calls[c].promise.state = "fulfilled"

\* C2: when the transaction opened by DB.createTransaction has aborted, the
\* promise createTransaction returned is rejected with the 'transaction
\* error' payload carrying the transaction's error.
C2_AbortRejectsCreateTransaction ==
    \A t \in 1..Len(txs) :
        txs[t].state = "aborted"
        => calls[txs[t].call].promise =
              [state |-> "rejected", value |-> Payload("transaction error", txs[t].error)]

OpenRefused(c) ==
    /\ calls[c].op = "createStore"
    /\ calls[c].req = "done"
    /\ calls[c].error # NoFault

OpenBlocked(c) ==
    /\ calls[c].op = "createStore"
    /\ calls[c].req = "blocked"

OpenRejected(c) ==
    calls[c].promise =
        [state |-> "rejected", value |-> Payload("open request error", calls[c].error)]

\* C3 as stated: whenever the host refused an open request, or holds it back
\* behind another connection (blocked), the promise of DB.createStore is
\* rejected with the open error payload; it is not pending.
C3_OpenRefusedOrBlockedRejects ==
    \A c \in 1..Len(calls) :
        (OpenRefused(c) \/ OpenBlocked(c))
        => calls[c].promise.state = "rejected" /\ calls[c].promise.value.t = "object"

\* C3 as the code has it: an open request on which the host fired error has
\* its promise rejected with {type: 'storage', message: 'open request error',
\* data: the host's error}; an open request that is blocked has fired no
\* handler and its promise is still pending.
C3_OpenErrorRejects ==
    \A c \in 1..Len(calls) :
        /\ OpenRefused(c) => OpenRejected(c)
        /\ OpenBlocked(c) => calls[c].promise = Pending

C3_Witness ==
    /\ \E c \in 1..Len(calls) : OpenRefused(c) /\ OpenRejected(c)
    /\ \E c \in 1..Len(calls) : OpenBlocked(c)

\* The failures the host reported to a call, the duplicate-key conflict of
\* add aside.
Failed(c) ==
    /\ calls[c].error # NoFault
    /\ ~(calls[c].op = "add" /\ calls[c].error = ConstraintError)

IsPayload(v, error) ==
    /\ v.t = "object"
    /\ Len(v.o) = 3
    /\ LookupMember(v.o, "type") = Str("storage")
    /\ LookupMember(v.o, "message").t = "string"
    /\ LookupMember(v.o, "data") = error

\* C4: every call of createStore, createTransaction, get, add, put, delete
\* or clear to which the host reported a failure, other than the
\* duplicate-key conflict of add, has its promise rejected with the payload
\* {type, message, data}, data being the reported failure.
C4_FailuresRejectWithPayload ==
    \A c \in 1..Len(calls) :
        Failed(c)
        => /\ calls[c].promise.state = "rejected"
           /\ IsPayload(calls[c].promise.value, calls[c].error)

\* No fault of the host's own: none on an open request, a request or a
\* transaction.
NoHostFault ==
    /\ \A c \in 1..Len(calls) : calls[c].error \notin DBFaults
    /\ \A t \in 1..Len(txs) : txs[t].error \notin DBFaults

ScenarioGet(c, result) ==
    (Len(calls) >= c /\ calls[c].req = "done")
    => calls[c].promise = [state |-> "fulfilled", value |-> result]

\* C10: in the scenario createStore('files') -> add {id:a,size:10} -> get(a)
\* -> put {id:a,size:20} -> get(a) -> clear -> get(a) on a fresh database,
\* one transaction per operation and no fault of the host, the three gets
\* resolve with {id:a,size:10}, {id:a,size:20} and undefined, no promise is
\* rejected, and when nothing more can happen all thirteen calls were made
\* and their promises are fulfilled.
C10_Scenario ==
    NoHostFault
    => /\ ScenarioGet(5, Record("a", "10"))
       /\ ScenarioGet(9, Record("a", "20"))
       /\ ScenarioGet(13, Undefined)
       /\ \A c \in 1..Len(calls) : calls[c].promise.state # "rejected"
       /\ ~(ENABLED ScenarioNext)
             => /\ Len(calls) = ScenarioLen
                /\ \A c \in 1..Len(calls) : calls[c].promise.state = "fulfilled"

C10_Witness ==
    /\ NoHostFault
    /\ Len(calls) = ScenarioLen
    /\ \A c \in 1..Len(calls) : calls[c].promise.state = "fulfilled"
    /\ calls[5].promise.value = Record("a", "10")
    /\ calls[9].promise.value = Record("a", "20")
    /\ calls[13].promise.value = Undefined
    /\ ~(ENABLED ScenarioNext)

\* The host served the request of call c in this step, without a fault of
\* its own and without an abort.
Served(c) ==
    /\ calls[c].req = "pending"
    /\ calls'[c].req = "done"
    /\ calls'[c].error \notin DBFaults \cup {AbortError}

StoreData(c) == idb.stores[calls[c].store].data

\* The key of the record call c puts.
PutKey(c) == KeyOf(idb.stores[calls[c].store], calls[c].arg)

\* C11: a DB.put the host serves stores its record under the record's key,
\* replacing whatever record the key had and touching no other key, and its
\* promise resolves with the key: of two puts with one key the second
\* payload is what the store holds.
C11_PutUpserts ==
    [][\A c \in 1..Len(calls) :
          (calls[c].op = "put" /\ Served(c))
          => /\ idb'.stores[calls[c].store].data =
                   [StoreData(c) EXCEPT ![PutKey(c).s] = calls[c].arg]
             /\ calls'[c].promise =
                   [state |-> "fulfilled", value |-> PutKey(c)]]_vars

C11_Witness ==
    \E c1, c2 \in 1..Len(calls) :
        /\ c1 < c2
        /\ calls[c1].op = "put" /\ calls[c2].op = "put"
        /\ calls[c1].tx = calls[c2].tx
        /\ calls[c1].arg # calls[c2].arg
        /\ calls[c1].promise = [state |-> "fulfilled", value |-> Str("a")]
        /\ calls[c2].promise = [state |-> "fulfilled", value |-> Str("a")]
        /\ txs[calls[c2].tx].state = "committed"
        /\ StoreData(c2) = [EmptyData EXCEPT !["a"] = calls[c2].arg]

\* C12: when the host answers a DB.add of a key that is present with
\* ConstraintError, the store's data is what it was (the record of the first
\* insert is kept) and the add's transaction is still active.
C12_AddDuplicateKeepsRecord ==
    [][\A c \in 1..Len(calls) :
          (calls[c].op = "add" /\ calls[c].req = "pending"
              /\ calls'[c].req = "done" /\ calls'[c].error = ConstraintError)
          => /\ idb' = idb
             /\ txs'[calls[c].tx].state = "active"]_vars

C12_Witness ==
    \E c \in 1..Len(calls) :
        /\ calls[c].op = "add" /\ calls[c].req = "done"
        /\ calls[c].error = ConstraintError
        /\ calls[c].arg = Record("a", "20")
        /\ StoreData(c)["a"] = Record("a", "10")
        /\ txs[calls[c].tx].state = "active"

\* C13: a DB.get the host serves resolves with the record at the key, which
\* is undefined when the key is absent; a DB.get promise is rejected only
\* when a fault was reported for it, and when the host fired error on its
\* request the rejection carries the 'get request error' payload.
C13_GetAbsentResolvesUndefined ==
    /\ [](\A c \in 1..Len(calls) :
             (calls[c].op = "get" /\ calls[c].promise.state = "rejected")
             => /\ calls[c].error # NoFault
                /\ calls[c].req = "done"
                      => calls[c].promise.value =
                            Payload("get request error", calls[c].error))
    /\ [][\A c \in 1..Len(calls) :
             (calls[c].op = "get" /\ Served(c))
             => calls'[c].promise =
                   [state |-> "fulfilled", value |-> StoreData(c)[calls[c].arg.s]]]_vars

C13_Witness ==
    /\ \E c \in 1..Len(calls) :
          /\ calls[c].op = "get" /\ calls[c].req = "done"
          /\ StoreData(c)[calls[c].arg.s] = Undefined
          /\ calls[c].promise = [state |-> "fulfilled", value |-> Undefined]
    /\ \E c \in 1..Len(calls) :
          /\ calls[c].op = "get" /\ calls[c].req = "done"
          /\ calls[c].error \in DBFaults
          /\ calls[c].promise.state = "rejected"

\* Call c opens the database again: an earlier createStore call with the same
\* store name has resolved.
Reopen(c) ==
    /\ calls[c].op = "createStore"
    /\ \E c1 \in 1..(c - 1) :
          /\ calls[c1].op = "createStore"
          /\ calls[c1].store = calls[c].store
          /\ calls[c1].promise.state = "fulfilled"

\* C14: a second DB.createStore with the same store name runs no upgrade,
\* and no event of its open request changes the database: the version and
\* the stores stay as they were.
C14_ReopenIsIdempotent ==
    /\ [](\A c \in 1..Len(calls) : Reopen(c) => calls[c].req # "upgraded")
    /\ [][\A c \in 1..Len(calls) :
             (Reopen(c) /\ calls'[c] # calls[c]) => idb' = idb]_vars

C14_Witness ==
    \E c1, c2 \in 1..Len(calls) :
        /\ c1 < c2
        /\ calls[c1].op = "createStore" /\ calls[c2].op = "createStore"
        /\ calls[c1].store = "notes" /\ calls[c2].store = "notes"
        /\ calls[c1].promise.state = "fulfilled"
        /\ calls[c2].promise.state = "fulfilled"
        /\ idb.version = DBVersion
        /\ idb.stores["notes"].exists

\* A store of the database as committed: no upgrade is under way (a store
\* created by an upgrade whose open request then fails never was in the
\* database).
StoreCommitted(n) ==
    /\ idb.stores[n].exists
    /\ \A c \in 1..Len(calls) : calls[c].req # "upgraded"

C27_ResolvedStoreExists ==
    \A c \in 1..Len(calls) :
        (calls[c].op = "createStore" /\ calls[c].promise.state = "fulfilled")
        => idb.stores[calls[c].store].exists

StorageIdle ==
    /\ sessionStorage = [k \in Keys |-> Absent]
    /\ localStorage = [k \in Keys |-> Absent]
    /\ views = << >>
    /\ last = NoCall
    /\ written = [ty \in Types |-> [p \in PoolNames |-> [f \in Fields |-> NotWritten]]]
    /\ traps = [k \in Contexts |-> << >>]
    /\ done = << >>
DBIdle ==
    /\ idb = NoDatabase
    /\ calls = << >>
    /\ txs = << >>

\* Array.prototype.find: the first element that passes the test, or
\* undefined; hits are the indices of the elements that pass it.
ArrayFind(array, hits) ==
    IF hits = {} THEN Undefined
    ELSE array[CHOOSE i \in hits : \A j \in hits : i <= j]

\* All the arrays of at most n elements of S.
ArraysOf(S, n) == UNION {[1..m -> S] : m \in 0..n}

(***************************************************************************)
(* condition(construct)                                                    *)
(***************************************************************************)
MaxBranches == 3

\* Variant: the last branch whose test is true decides.
condition_last(construct) ==
    LET hits == {i \in 1..Len(construct) : construct[i][1]} IN
    IF hits = {} THEN Throw(TypeError)
    ELSE Return(construct[CHOOSE i \in hits : \A j \in hits : j <= i][2])

\* (construct.find(branch => branch[0]) as T[])[1]; reading [1] of the
\* undefined that find returns when no test is true throws a TypeError.
condition(construct) ==
    LET branch == ArrayFind(construct, {i \in 1..Len(construct) : construct[i][1]}) IN
    IF branch = Undefined THEN Throw(TypeError) ELSE Return(branch[2])

ConditionValues == {Num("1"), Num("-1"), Num("0")}
Constructs == ArraysOf(BOOLEAN \X ConditionValues, MaxBranches)

ConditionInit ==
    /\ input \in Constructs
    /\ output = NotUsed
    /\ task = NotUsed /\ chain = NotUsed /\ anim = NotUsed /\ hook = NotUsed
    /\ StorageIdle
    /\ DBIdle

\* A caller evaluates condition(construct).
ConditionCall ==
    /\ output = NotUsed
    /\ output' = condition(input)
    /\ UNCHANGED <<input, task, chain, anim, hook, storageVars, dbVars>>

ConditionNext == ConditionCall
ConditionSpec == ConditionInit /\ [][ConditionNext]_vars

\* C25: condition(construct) returns the value paired with the first branch
\* of construct whose condition is true.
C25_FirstTrueBranch ==
    \A i \in 1..Len(input) :
        (output # NotUsed /\ input[i][1] /\ \A j \in 1..(i - 1) : ~input[j][1])
        => output = Return(input[i][2])

\* A call in which the first true branch follows a false one and is followed
\* by a true branch with another value.
C25_Witness ==
    /\ output # NotUsed
    /\ Len(input) = 3
    /\ ~input[1][1] /\ input[2][1] /\ input[3][1]
    /\ input[2][2] # input[3][2]

(***************************************************************************)
(* ArrayOfObjects.expand({ from, source, plusProp, plusPropName,           *)
(* identityProp })                                                         *)
(***************************************************************************)
MaxItems == 2

\* a ?? b
NullishCoalesce(a, b) == IF a \in {Undefined, Null} THEN b ELSE a

\* A destructured parameter with a default value.
Default(param, value) == IF param = Undefined THEN value ELSE param

ArrayOfObjects_expand(param) ==
    LET plusPropName == Default(param.plusPropName, param.plusProp).s
        identityProp == Default(param.identityProp, Str("id")).s
        plus(id) ==
            NullishCoalesce(
                GetProp(ArrayFind(param.source,
                                  {k \in 1..Len(param.source) :
                                      GetProp(param.source[k], identityProp) = id}),
                        param.plusProp.s),
                Obj(<< >>))
    IN Return([i \in 1..Len(param.from) |->
                  Obj(<<Member(identityProp, param.from[i]),
                        Member(plusPropName, plus(param.from[i]))>>)])

ExpandIds == {Num("2"), Num("4")}
ExpandNames == {Str("b"), Null}
ExpandItems ==
    {Obj(<<Member(idProp, id)>>) : idProp \in {"id", "num"}, id \in ExpandIds}
    \cup {Obj(<<Member(idProp, id), Member("name", name)>>) :
             idProp \in {"id", "num"}, id \in ExpandIds, name \in ExpandNames}

ExpandInit ==
    /\ \E from \in ArraysOf(ExpandIds, MaxItems),
          source \in ArraysOf(ExpandItems, MaxItems),
          plusPropName \in {Undefined, Str("nickName")},
          identityProp \in {Undefined, Str("num")} :
          input = [from |-> from, source |-> source, plusProp |-> Str("name"),
                   plusPropName |-> plusPropName, identityProp |-> identityProp]
    /\ output = NotUsed
    /\ task = NotUsed /\ chain = NotUsed /\ anim = NotUsed /\ hook = NotUsed
    /\ StorageIdle
    /\ DBIdle

\* A caller evaluates ArrayOfObjects.expand(param).
ExpandCall ==
    /\ output = NotUsed
    /\ output' = ArrayOfObjects_expand(input)
    /\ UNCHANGED <<input, task, chain, anim, hook, storageVars, dbVars>>

ExpandNext == ExpandCall
ExpandSpec == ExpandInit /\ [][ExpandNext]_vars

\* C26: expand returns, for each id of from in order, the object
\* {identityProp: id, plusPropName: v}, where v is the plusProp of the source
\* item with that id, and null when no source item has that id.
C26_ExpandMissingIsNull ==
    output # NotUsed =>
        LET plusPropName == Default(input.plusPropName, input.plusProp).s
            identityProp == Default(input.identityProp, Str("id")).s
            Has(id) == \E k \in 1..Len(input.source) :
                          GetProp(input.source[k], identityProp) = id
            First(id) == CHOOSE k \in 1..Len(input.source) :
                            /\ GetProp(input.source[k], identityProp) = id
                            /\ \A j \in 1..(k - 1) :
                                  GetProp(input.source[j], identityProp) # id
        IN /\ output.kind = "return"
           /\ Len(output.v) = Len(input.from)
           /\ \A i \in 1..Len(input.from) :
                 output.v[i] =
                     Obj(<<Member(identityProp, input.from[i]),
                           Member(plusPropName,
                                  IF Has(input.from[i])
                                  THEN GetProp(input.source[First(input.from[i])],
                                               input.plusProp.s)
                                  ELSE Null)>>)

(***************************************************************************)
(* macrotask(callback), called as  value = await macrotask(callback).      *)
(* The event loop runs one task at a time and empties the microtask queue  *)
(* after each task, before the next task (a timer is a task).              *)
(***************************************************************************)
MaxTasks == 3

\* setTimeout(callback, 0): the callback becomes a timer task.
setTimeout(loop, callback) == [loop EXCEPT !.timers = Append(@, callback)]

\* macrotask returns nothing (void): its completion is undefined.
macrotask(loop, callback) ==
    [loop |-> setTimeout(loop, callback), out |-> Return(Undefined)]

\* What the callbacks return.
CallbackValues == {Num("1"), Num("2"), Undefined}

MacrotaskInit ==
    /\ task = [timers |-> << >>, microtasks |-> << >>, awaits |-> << >>,
               called |-> << >>]
    /\ input = NotUsed /\ output = NotUsed
    /\ chain = NotUsed /\ anim = NotUsed /\ hook = NotUsed
    /\ StorageIdle
    /\ DBIdle

\* A task runs  await macrotask(callback)  with a callback that returns v:
\* the await of a value that is not a promise continues in a microtask.
MacrotaskAwait(v) ==
    /\ Len(task.awaits) < MaxTasks
    /\ task.microtasks = << >>
    /\ LET n == Len(task.awaits) + 1
           r == macrotask(task, [id |-> n, returns |-> v])
       IN task' = [r.loop EXCEPT
                      !.awaits = Append(@, [returns |-> v, value |-> NotUsed]),
                      !.called = Append(@, FALSE),
                      !.microtasks = Append(@, [id |-> n, value |-> r.out.v])]
    /\ UNCHANGED <<input, output, chain, anim, hook, storageVars, dbVars>>

\* The continuation of an await runs: the await completes with its value.
MacrotaskResume ==
    /\ task.microtasks # << >>
    /\ LET m == Head(task.microtasks) IN
       task' = [task EXCEPT !.microtasks = Tail(@),
                            !.awaits[m.id].value = m.value]
    /\ UNCHANGED <<input, output, chain, anim, hook, storageVars, dbVars>>

\* The oldest timer fires: the event loop calls the callback and drops what
\* it returns.
MacrotaskTimer ==
    /\ task.microtasks = << >>
    /\ task.timers # << >>
    /\ task' = [task EXCEPT !.timers = Tail(@),
                            !.called[Head(task.timers).id] = TRUE]
    /\ UNCHANGED <<input, output, chain, anim, hook, storageVars, dbVars>>

MacrotaskNext ==
    \/ \E v \in CallbackValues : MacrotaskAwait(v)
    \/ MacrotaskResume
    \/ MacrotaskTimer
MacrotaskSpec == MacrotaskInit /\ [][MacrotaskNext]_vars

\* C21: when an await of macrotask(callback) has completed, callback has been
\* called and the awaited value is what callback returned.
C21_AwaitedAfterCallback ==
    \A n \in 1..Len(task.awaits) :
        task.awaits[n].value # NotUsed
        => /\ task.called[n]
           /\ task.awaits[n].value = task.awaits[n].returns

(***************************************************************************)
(* promiseSequence(promiseFactories) and tryRequest({ times, url }).       *)
(* The reduce builds the chain  acc[i] = acc[i - 1].then(v => f[i](v))     *)
(* over acc[0] = Promise.resolve(); tryRequest adds one more then() whose  *)
(* callback checks the response.  A callback is a kind of function:        *)
(*   "promise"  a factory that returns a promise the host settles later,   *)
(*   "value"    a factory that returns a value that is not a promise,      *)
(*   "throw"    a factory that throws,                                     *)
(*   "fetch"    () => fetch(url, options),                                 *)
(*   "repeat"   tryRequest's repeat,                                       *)
(*   "check"    the callback of tryRequest's final then().                 *)
(***************************************************************************)
MaxFactories == 3
MaxTimes == 3

Response(ok, n) == [t |-> "object", o |-> << >>, class |-> "Response", ok |-> ok, n |-> n]

\* A promise that is still pending, returned by a callback.
NewPromise == [kind |-> "promise"]

\* fetch(url, options): one more request, answered later by the host.
fetch(ch) == [ch |-> [ch EXCEPT !.fetches = @ + 1], out |-> NewPromise]

\* Variant: repeat fetches again whatever the response is.
repeat_refetch(ch, response) == fetch(ch)

\* repeat: an ok response is passed on, any other response is fetched again.
repeat(ch, response) ==
    IF response.ok THEN [ch |-> ch, out |-> Return(response)] ELSE fetch(ch)

\* What calling the callback of a kind with a value does and completes with.
Invoke(ch, kind, value) ==
    CASE kind = "promise" -> [ch |-> ch, out |-> NewPromise]
      [] kind = "value" -> [ch |-> ch, out |-> Return(Num("0"))]
      [] kind = "throw" -> [ch |-> ch, out |-> Throw(Error("factory"))]
      [] kind = "fetch" -> fetch(ch)
      [] kind = "repeat" -> repeat(ch, value)
      [] kind = "check" -> [ch |-> ch,
                            out |-> IF value.ok THEN Return(value) ELSE Throw(value)]

\* acc[0] is Promise.resolve().
Acc(ch, i) == IF i = 0 THEN resolve(Pending, Undefined) ELSE ch.acc[i]

\* Variant: the callback of a then() does not wait for the promise before it.
ThenReady_eager(ch, i) == TRUE

\* acc[i - 1].then(callback) calls the callback once acc[i - 1] is fulfilled.
ThenReady(ch, i) == Acc(ch, i - 1).state = "fulfilled"

\* The chain that the reduce of promiseSequence builds over the factories.
promiseSequence(promiseFactories) ==
    [callbacks |-> promiseFactories,
     n |-> Len(promiseFactories),
     acc |-> [i \in 1..Len(promiseFactories) |-> Pending],
     ran |-> [i \in 1..Len(promiseFactories) |-> FALSE],
     invoked |-> << >>,
     fetches |-> 0,
     times |-> 0]

\* tryRequest: the sequence of one fetch and times - 1 repeats, then the check.
tryRequest(times) ==
    LET ch == promiseSequence(<<"fetch">> \o [i \in 1..(times - 1) |-> "repeat"])
    IN [ch EXCEPT !.callbacks = Append(@, "check"),
                  !.acc = Append(@, Pending),
                  !.ran = Append(@, FALSE),
                  !.times = times]

\* The promise the caller holds.
Result(ch) == Acc(ch, Len(ch.callbacks))

FactoryKinds == {"promise", "value", "throw"}
SettleValues == {Num("1"), Num("2")}

SequenceInit ==
    /\ \/ \E fs \in ArraysOf(FactoryKinds, MaxFactories) : chain = promiseSequence(fs)
       \/ \E times \in 1..MaxTimes : chain = tryRequest(times)
    /\ input = NotUsed /\ output = NotUsed
    /\ task = NotUsed /\ anim = NotUsed /\ hook = NotUsed
    /\ StorageIdle
    /\ DBIdle

\* The callback of the i-th then() runs with the value of the promise before it.
SequenceInvoke(i) ==
    /\ ~chain.ran[i]
    /\ ThenReady(chain, i)
    /\ Acc(chain, i - 1).state # "rejected"
    /\ LET value == Acc(chain, i - 1).value
           r == Invoke(chain, chain.callbacks[i], value)
       IN chain' = [r.ch EXCEPT
                       !.ran[i] = TRUE,
                       !.invoked = Append(@, [i |-> i, value |-> value]),
                       !.acc[i] = IF r.out = NewPromise THEN @
                                  ELSE IF r.out.kind = "throw" THEN reject(@, r.out.v)
                                  ELSE resolve(@, r.out.v)]
    /\ UNCHANGED <<input, output, task, anim, hook, storageVars, dbVars>>

\* The promise before the i-th then() is rejected: the callback is skipped
\* and the rejection is passed on.
SequenceSkip(i) ==
    /\ ~chain.ran[i]
    /\ chain.acc[i].state = "pending"
    /\ Acc(chain, i - 1).state = "rejected"
    /\ chain' = [chain EXCEPT !.acc[i] = reject(@, Acc(chain, i - 1).value)]
    /\ UNCHANGED <<input, output, task, anim, hook, storageVars, dbVars>>

\* The promise that the i-th callback returned is fulfilled.
HostFulfil(i, v) ==
    /\ chain.ran[i]
    /\ chain.acc[i].state = "pending"
    /\ chain' = [chain EXCEPT !.acc[i] = resolve(@, v)]
    /\ UNCHANGED <<input, output, task, anim, hook, storageVars, dbVars>>

\* The promise that the i-th callback returned is rejected.
HostReject(i, e) ==
    /\ chain.ran[i]
    /\ chain.acc[i].state = "pending"
    /\ chain' = [chain EXCEPT !.acc[i] = reject(@, e)]
    /\ UNCHANGED <<input, output, task, anim, hook, storageVars, dbVars>>

\* What the host may answer the promise of the i-th callback with.
FulfilValues(i) ==
    IF chain.callbacks[i] \in {"fetch", "repeat"}
    THEN {Response(ok, chain.fetches) : ok \in BOOLEAN}
    ELSE SettleValues

SequenceNext ==
    \/ \E i \in 1..Len(chain.callbacks) : SequenceInvoke(i)
    \/ \E i \in 1..Len(chain.callbacks) : SequenceSkip(i)
    \/ \E i \in 1..Len(chain.callbacks) : \E v \in FulfilValues(i) : HostFulfil(i, v)
    \/ \E i \in 1..Len(chain.callbacks) :
          \E e \in {TypeError, Error("rejected")} : HostReject(i, e)
SequenceSpec == SequenceInit /\ [][SequenceNext]_vars

\* The steps of the chain that are factories of promiseSequence.
Factories == 1..chain.n
\* The promise that promiseSequence returns.
SequenceResult == Acc(chain, chain.n)
\* The factories whose promise is rejected (or that threw) themselves.
RejectedFactories ==
    {i \in Factories : chain.ran[i] /\ chain.acc[i].state = "rejected"}

\* C23: promiseSequence invokes the factories in array order, factory i + 1
\* only once the promise of factory i is fulfilled and with its value; the
\* sequence is fulfilled only after the last factory, with its value; after
\* a rejection no later factory is invoked and the sequence, once settled, is
\* rejected with that reason.
C23_SequenceInOrder ==
    /\ \A k \in 1..Len(chain.invoked) :
          /\ chain.invoked[k].i = k
          /\ Acc(chain, k - 1).state = "fulfilled"
          /\ chain.invoked[k].value = Acc(chain, k - 1).value
    /\ SequenceResult.state = "fulfilled"
       => /\ \A i \in Factories : chain.ran[i] /\ chain.acc[i].state = "fulfilled"
          /\ RejectedFactories = {}
    /\ \A i \in RejectedFactories :
          /\ \A j \in Factories : j > i => ~chain.ran[j]
          /\ SequenceResult.state # "pending"
             => SequenceResult = reject(Pending, chain.acc[i].value)
    /\ SequenceResult.state = "rejected" => RejectedFactories # {}

\* The second of three factories was called with the value of the first,
\* its promise was rejected, and the sequence is rejected without the third.
C23_Witness ==
    /\ chain.times = 0
    /\ chain.n = 3
    /\ Len(chain.invoked) = 2
    /\ chain.invoked[2].value = Num("2")
    /\ chain.acc[2] = reject(Pending, Error("rejected"))
    /\ SequenceResult = reject(Pending, Error("rejected"))

\* The responses the fetches of a tryRequest were answered with.
OkResponses ==
    {i \in Factories : /\ chain.acc[i].state = "fulfilled"
                       /\ chain.acc[i].value.ok}

\* C22: tryRequest issues at most times fetches and none after the first ok
\* response; it is fulfilled only with that response and, once settled
\* without any ok response (a failed fetch included), it is rejected.
C22_TryRequest ==
    /\ [](chain.times > 0 =>
            /\ chain.fetches <= chain.times
            /\ Result(chain).state = "fulfilled"
               => /\ OkResponses # {}
                  /\ \A i \in OkResponses : Result(chain).value = chain.acc[i].value
            /\ (Result(chain).state # "pending" /\ OkResponses = {})
               => Result(chain).state = "rejected")
    /\ [][(chain.times > 0 /\ OkResponses # {})
           => chain'.fetches = chain.fetches]_vars

\* The first fetch of three attempts got a response that is not ok, the
\* second an ok one, no third fetch was made and the request is fulfilled
\* with the second response.
C22_Witness ==
    /\ chain.times = 3
    /\ chain.fetches = 2
    /\ chain.acc[1] = resolve(Pending, Response(FALSE, 1))
    /\ chain.ran[3]
    /\ Result(chain) = resolve(Pending, Response(TRUE, 2))

(***************************************************************************)
(* animate(speed, operation)                                               *)
(***************************************************************************)
MaxFrames == 4

\* requestAnimationFrame(step): a new handle, pending until the next frame.
requestAnimationFrame(a) ==
    [a EXCEPT !.handles = @ + 1, !.pending = @ \cup {a.handles + 1},
              !.id = a.handles + 1]

\* cancelAnimationFrame(id): the request, if it is still pending, is dropped.
cancelAnimationFrame(a, id) == [a EXCEPT !.pending = @ \ {id}]

\* Variant: step requests the next frame whatever operation returns.
step_rerequest(a, timeStamp, continueAnimation) ==
    LET start == IF a.start = 0 THEN timeStamp ELSE a.start
        count == (a.speed \div 1000) * (timeStamp - start)
        b == [a EXCEPT !.start = start,
                       !.calls = Append(@, [frame |-> a.frame, count |-> count,
                                            continue |-> continueAnimation])]
    IN requestAnimationFrame(b)

\* step(timeStamp), in which operation(count) returns continueAnimation.
\* start is null (falsy, as is 0) until the first step.
step(a, timeStamp, continueAnimation) ==
    LET start == IF a.start = 0 THEN timeStamp ELSE a.start
        count == (a.speed \div 1000) * (timeStamp - start)
        b == [a EXCEPT !.start = start,
                       !.calls = Append(@, [frame |-> a.frame, count |-> count,
                                            continue |-> continueAnimation])]
    IN IF continueAnimation THEN requestAnimationFrame(b)
       ELSE cancelAnimationFrame(b, b.id)

\* animate(speed, operation) requests the first frame and returns.
animate(speed) ==
    requestAnimationFrame([speed |-> speed, start |-> 0, id |-> 0, handles |-> 0,
                           pending |-> {}, frame |-> 0, time |-> 0, calls |-> << >>])

Speeds == {1000, 2000}
FrameTimes == {10, 20}

AnimateInit ==
    /\ \E speed \in Speeds : anim = animate(speed)
    /\ input = NotUsed /\ output = NotUsed
    /\ task = NotUsed /\ chain = NotUsed /\ hook = NotUsed
    /\ StorageIdle
    /\ DBIdle

\* The browser renders a frame dt later and runs the callback requested
\* before the frame; the requests made in the frame wait for the next one.
AnimateFrame(dt, continueAnimation) ==
    /\ anim.frame < MaxFrames
    /\ anim.pending # {}
    /\ LET a == [anim EXCEPT !.frame = @ + 1, !.time = @ + dt, !.pending = {}]
       IN anim' = step(a, a.time, continueAnimation)
    /\ UNCHANGED <<input, output, task, chain, hook, storageVars, dbVars>>

\* The browser renders a frame for which no callback is requested.
AnimateIdleFrame(dt) ==
    /\ anim.frame < MaxFrames
    /\ anim.pending = {}
    /\ anim' = [anim EXCEPT !.frame = @ + 1, !.time = @ + dt]
    /\ UNCHANGED <<input, output, task, chain, hook, storageVars, dbVars>>

AnimateNext ==
    \/ \E dt \in FrameTimes, continueAnimation \in BOOLEAN :
          AnimateFrame(dt, continueAnimation)
    \/ \E dt \in FrameTimes : AnimateIdleFrame(dt)
AnimateSpec == AnimateInit /\ [][AnimateNext]_vars

\* C24: operation is called at most once per animation frame, and once it
\* has returned false no frame is requested and it is not called again.
C24_AnimateStops ==
    /\ \A k, l \in 1..Len(anim.calls) :
          k # l => anim.calls[k].frame # anim.calls[l].frame
    /\ \A k \in 1..Len(anim.calls) :
          ~anim.calls[k].continue => k = Len(anim.calls) /\ anim.pending = {}

\* operation returned true, then false, and two frames have passed since.
C24_Witness ==
    /\ Len(anim.calls) = 2
    /\ anim.calls[1].continue
    /\ ~anim.calls[2].continue
    /\ anim.frame = anim.calls[2].frame + 2

(***************************************************************************)
(* useStorage(type, key): the React hook over storage[type].  The module   *)
(* of the hook has its own parse, which decodes a broken text as { }; its  *)
(* storage object is the one modelled above.                               *)
(***************************************************************************)
MaxEvents == 1

useStorage_parse(data) ==
    LET r == JSONParse(IF data.present THEN data.text ELSE <<NullTok>>)
    IN IF r.ok THEN r.v ELSE Obj(<< >>)

useStorage_get(w, type, key) ==
    useStorage_parse(getItem(IF type = "session" THEN w.session ELSE w.local, key))

\* setCurrentValue(value): React renders again, and runs the effects that
\* depend on currentValue, unless the value is the same (Object.is).
setCurrentValue(h, value, source) ==
    [h EXCEPT !.currentValue = value,
              !.source = source,
              !.effect = @ \/ value.t = "object" \/ value # h.currentValue]

\* A StorageEvent: event.storageArea, event.key, event.newValue.
StorageEvent(storageArea, key, newValue) ==
    [storageArea |-> storageArea, key |-> key, newValue |-> newValue]

\* handler(event)
useStorage_handler(h, event) ==
    IF event.storageArea = "local" /\ event.key = h.key
    THEN setCurrentValue(h, useStorage_parse(event.newValue), "notification")
    ELSE h

\* The first render: useState(() => storage[type].get(key)); the effects
\* (the listener, the write of currentValue) run after it.
useStorage(w, type, key) ==
    [type |-> type, key |-> key, currentValue |-> useStorage_get(w, type, key),
     source |-> "storage", stored |-> "none", listening |-> FALSE, effect |-> TRUE,
     events |-> << >>]

\* Values the component sets.
HookValues == {Num("1"), Obj(<<Member("f", Num("1"))>>)}
\* Items another browsing context leaves under a key of localStorage.
OtherItems == {Absent, Item(<<LBrace, Tok("string", "f")>>),
               Item(<<LBrace, Tok("string", "g"), Colon, Tok("number", "1"), RBrace>>)}

HookInit ==
    /\ \E type \in Types, key \in Keys, s \in InitialItems, l \in InitialItems :
          /\ sessionStorage = [k \in Keys |-> IF k = key THEN s ELSE Absent]
          /\ localStorage = [k \in Keys |-> IF k = key THEN l ELSE Absent]
          /\ hook = useStorage([session |-> sessionStorage, local |-> localStorage],
                               type, key)
    /\ views = << >>
    /\ last = NoCall
    /\ written = [ty \in Types |-> [p \in PoolNames |-> [f \in Fields |-> NotWritten]]]
    /\ traps = [k \in Contexts |-> << >>]
    /\ done = << >>
    /\ input = NotUsed /\ output = NotUsed
    /\ task = NotUsed /\ chain = NotUsed /\ anim = NotUsed
    /\ DBIdle

\* The effects of the last render run: the listener is registered, and
\* storage[type].set(key, currentValue) writes the value of the hook.
HookEffects ==
    /\ hook.effect
    /\ LET r == storage_set(W, hook.type, hook.key, hook.currentValue, NoFault) IN
          /\ sessionStorage' = r.w.session
          /\ localStorage' = r.w.local
    /\ hook' = [hook EXCEPT !.effect = FALSE, !.listening = TRUE,
                            !.stored = hook.source]
    /\ UNCHANGED <<views, last, written, traps, done, dbVars,
                   input, output, task, chain, anim>>

\* The component calls the setter the hook returned.
HookSet(value) ==
    /\ ~hook.effect
    /\ hook' = setCurrentValue(hook, value, "caller")
    /\ UNCHANGED <<sessionStorage, localStorage, views, last, written, traps, done,
                   dbVars, input, output, task, chain, anim>>

\* Another browsing context of the origin changes an item of localStorage:
\* this context is notified with the key and the new text (null when the
\* item was removed).
OtherContextWrite(key, item) ==
    /\ Len(hook.events) < MaxEvents
    /\ item # localStorage[key]
    /\ localStorage' = [localStorage EXCEPT ![key] = item]
    /\ hook' = [hook EXCEPT !.events = Append(@, StorageEvent("local", key, item))]
    /\ UNCHANGED <<sessionStorage, views, last, written, traps, done, dbVars,
                   input, output, task, chain, anim>>

\* The window dispatches the oldest storage event to the listeners.
HookStorageEvent ==
    /\ hook.events # << >>
    /\ ~hook.effect
    /\ LET h == [hook EXCEPT !.events = Tail(@)] IN
       hook' = IF hook.listening THEN useStorage_handler(h, Head(hook.events)) ELSE h
    /\ UNCHANGED <<sessionStorage, localStorage, views, last, written, traps, done,
                   dbVars, input, output, task, chain, anim>>

HookNext ==
    \/ HookEffects
    \/ \E value \in HookValues : HookSet(value)
    \/ \E key \in Keys, item \in OtherItems : OtherContextWrite(key, item)
    \/ HookStorageEvent
HookSpec == HookInit /\ [][HookNext]_vars

\* C30: the value of a hook bound to the session scope never comes from a
\* notification of localStorage, and neither does the sessionStorage item the
\* hook wrote.
C30_SessionHookIgnoresLocal ==
    hook.type = "session"
    => /\ hook.source # "notification"
       /\ hook.stored # "notification"

====
